---- MODULE Spec2Model ----
(***************************************************************************)
(* The physics-simulation suite: the Atwood machine, the elastic-collision *)
(* blocks, the two rigid-body rotation implementations, the parameter form *)
(* of the harmonic oscillator and the line snap/trim tool, each modelled   *)
(* as the state of its Python object and one action per widget callback or *)
(* timer frame.                                                            *)
(*                                                                         *)
(* Arithmetic.  The sources compute in IEEE doubles.  The model computes   *)
(* in integers, in units chosen per engine so that every quantity the      *)
(* source computes from the modelled inputs is a whole number of units:    *)
(* the time unit of an engine is its dt (one tick per physics step), and   *)
(* the length/angle unit is fine enough that a*dt*dt is whole.  Where a    *)
(* comparison of the source is decided by double rounding (the running sum *)
(* of dt against t_max, or against the collision cooldown) the model uses  *)
(* the outcome the doubles give, stated at the definition.                 *)
(***************************************************************************)
EXTENDS Integers, Sequences, FiniteSets, TLC

VARIABLES
    engine,      \* which simulation the home screen launched
    atwood,      \* the AtwoodMachine object            (src/atwood_machine.py)
    elastic,     \* the ElasticCollision object        (src/elastic_collision.py)
    rotation,    \* the RigidBodyRotation object       (src/rigid_body_rotation.py)
    freefall,    \* the sibling RigidBodyRotation      (src/free_fall_simulation.py)
    drawer,      \* the LineDrawer object              (src/snap_line.py)
    shm,         \* the ImprovedSHMSimulator object    (src/SHO.py)
    last_call    \* observation only: the callback that ran last; a timer frame is
                 \* "step" when it advanced the physics and "idle_frame" when not

vars == <<engine, atwood, elastic, rotation, freefall, drawer, shm, last_call>>

Abs(x) == IF x < 0 THEN -x ELSE x

(***************************************************************************)
(* Bounds of the model: the slider values explored.                        *)
(***************************************************************************)
\* Atwood: masses 1 .. MaxMass kg on both mass sliders (slider range 0.1 .. 5.0)
MaxMass == 3

\* Rotation: masses 1 .. MaxRotMass kg (slider 0.1 .. 5.0) and torques up to
\* MaxTorque N*m (slider 0.1 .. 5.0; the sibling's slider starts at 0.0)
MaxRotMass == 2

MaxTorque == 2

\* Elastic collision: the engine has no end time; frames are explored while
\* t < MaxTicks micro-steps of dt
MaxTicks == 250

\* Elastic collision: slider moves are explored in the first SliderFrames frames
\* of a run (any run can be started again by Reset)
SliderFrames == 1

(***************************************************************************)
(* ATWOOD MACHINE  (src/atwood_machine.py)                                 *)
(* Units: time in ticks of dt = 0.02 s; length in 1/Metre metres, so that  *)
(* velocity*dt and acceleration*dt*dt are whole for integer masses up to   *)
(* 5 kg: Metre = 2500 (1/dt^2) * 100 (g has two decimals) * 280.           *)
(***************************************************************************)
Metre == 2500 * 100 * 280

\* g = 9.81 m/s^2, as g*dt*dt in length units per tick^2
g == 981 * (Metre \div (100 * 2500))

\* y1_0 = 1.5, y2_0 = -1.5
y1_0 == (3 * Metre) \div 2

y2_0 == -((3 * Metre) \div 2)

\* t_max = 10.0 s = 500 ticks of dt
t_max == 500

\* The history lists are cut to 500 entries.
HistoryCap == 500

\* The slider values explored: masses in kg, string length in metres (2.0 .. 6.0).
AtwoodMasses == 1 .. MaxMass

StringLengths == {2 * Metre, 4 * Metre, 6 * Metre}

\* BelowTMax with a fault: the run is cut at half of t_max.
BelowHalfTMax(n) == n <= t_max \div 2

\* "self.current_time < self.t_max" with current_time the running double sum of n
\* additions of dt = 0.02: the sum after 500 additions is 9.999999999999876, below
\* 10.0, and after 501 it is 10.019999999999875; so the test passes for n <= 500.
BelowTMax(n) == n <= t_max

\* AtwoodAcceleration with a fault: the net force is not divided by the total mass.
AtwoodAccelerationUndivided(m1, m2) == (m2 - m1) * g

\* acceleration = (m2 - m1) * g / (m1 + m2)
AtwoodAcceleration(m1, m2) == ((m2 - m1) * g) \div (m1 + m2)

\* AtwoodTension with a fault: the factor 2 is missing.
AtwoodTensionWithoutTwo(m1, m2) == (m1 * m2 * g) \div (m1 + m2)

\* tension = 2 * m1 * m2 * g / (m1 + m2)
AtwoodTension(m1, m2) == (2 * m1 * m2 * g) \div (m1 + m2)

\* AtwoodResetSimulation with a fault: the positions, the velocities and the
\* histories are left as they are.
AtwoodResetSimulationDerivedOnly(s) ==
    [s EXCEPT !.current_time = 0,
              !.acceleration = AtwoodAcceleration(s.m1, s.m2),
              !.tension = AtwoodTension(s.m1, s.m2)]

\* reset_simulation: initial conditions, derived physics, empty histories
AtwoodResetSimulation(s) ==
    [s EXCEPT !.current_time = 0,
              !.y1 = y1_0,
              !.y2 = y2_0,
              !.v1 = 0,
              !.v2 = 0,
              !.acceleration = AtwoodAcceleration(s.m1, s.m2),
              !.tension = AtwoodTension(s.m1, s.m2),
              !.time_history = << >>,
              !.y1_history = << >>,
              !.y2_history = << >>,
              !.v1_history = << >>,
              !.v2_history = << >>]

\* AtwoodConstrain with a fault: the masses are set a whole string length from the
\* midpoint instead of half of one.
AtwoodConstrainFullLength(y1, y2, string_length) ==
    IF Abs(y1 - y2) > string_length
    THEN LET midpoint == (y1 + y2) \div 2
         IN  IF y1 > y2
             THEN <<midpoint + string_length, midpoint - string_length>>
             ELSE <<midpoint - string_length, midpoint + string_length>>
    ELSE <<y1, y2>>

\* AtwoodConstrain with a fault: the two branches are exchanged, so the masses
\* come out in the opposite order.
AtwoodConstrainExchanged(y1, y2, string_length) ==
    IF Abs(y1 - y2) > string_length
    THEN LET midpoint == (y1 + y2) \div 2
         IN  IF y1 > y2
             THEN <<midpoint - string_length \div 2, midpoint + string_length \div 2>>
             ELSE <<midpoint + string_length \div 2, midpoint - string_length \div 2>>
    ELSE <<y1, y2>>

\* The string constraint of update_physics: positions <<y1, y2>> after the
\* projection onto separation string_length about the midpoint.
AtwoodConstrain(y1, y2, string_length) ==
    IF Abs(y1 - y2) > string_length
    THEN LET midpoint == (y1 + y2) \div 2
         IN  IF y1 > y2
             THEN <<midpoint + string_length \div 2, midpoint - string_length \div 2>>
             ELSE <<midpoint - string_length \div 2, midpoint + string_length \div 2>>
    ELSE <<y1, y2>>

\* PushCapped with a fault: the list is never cut.
PushUncapped(h, x) == Append(h, x)

\* list.append(x) followed by "if len > 500: pop(0)"
PushCapped(h, x) ==
    LET a == Append(h, x)
    IN  IF Len(a) > HistoryCap THEN Tail(a) ELSE a

\* AtwoodUpdatePhysics with a fault: both velocities gain the acceleration.
AtwoodUpdatePhysicsSameSign(s) ==
    LET v1 == s.v1 + s.acceleration
        v2 == s.v2 + s.acceleration
        y  == AtwoodConstrain(s.y1 + v1, s.y2 + v2, s.string_length)
        t  == s.current_time + 1
    IN  [s EXCEPT !.v1 = v1,
                  !.v2 = v2,
                  !.y1 = y[1],
                  !.y2 = y[2],
                  !.current_time = t,
                  !.time_history = PushCapped(s.time_history, t),
                  !.y1_history = PushCapped(s.y1_history, y[1]),
                  !.y2_history = PushCapped(s.y2_history, y[2]),
                  !.v1_history = PushCapped(s.v1_history, v1),
                  !.v2_history = PushCapped(s.v2_history, v2)]

\* update_physics: explicit Euler step, string constraint, time, histories
AtwoodUpdatePhysics(s) ==
    LET v1 == s.v1 + s.acceleration
        v2 == s.v2 - s.acceleration
        y  == AtwoodConstrain(s.y1 + v1, s.y2 + v2, s.string_length)
        t  == s.current_time + 1
    IN  [s EXCEPT !.v1 = v1,
                  !.v2 = v2,
                  !.y1 = y[1],
                  !.y2 = y[2],
                  !.current_time = t,
                  !.time_history = PushCapped(s.time_history, t),
                  !.y1_history = PushCapped(s.y1_history, y[1]),
                  !.y2_history = PushCapped(s.y2_history, y[2]),
                  !.v1_history = PushCapped(s.v1_history, v1),
                  !.v2_history = PushCapped(s.v2_history, v2)]

\* setup_parameters and setup_plot: the object after construction
AtwoodInit ==
    AtwoodResetSimulation(
        [m1 |-> 1, m2 |-> 2, string_length |-> 4 * Metre,
         current_time |-> 0, y1 |-> 0, y2 |-> 0, v1 |-> 0, v2 |-> 0,
         acceleration |-> 0, tension |-> 0,
         time_history |-> << >>, y1_history |-> << >>, y2_history |-> << >>,
         v1_history |-> << >>, v2_history |-> << >>,
         paused |-> FALSE])

\* animate_frame: one timer frame
AtwoodAnimateFrame ==
    /\ engine = "atwood"
    /\ IF ~atwood.paused /\ BelowTMax(atwood.current_time)
       THEN atwood' = AtwoodUpdatePhysics(atwood) /\ last_call' = "step"
       ELSE atwood' = atwood /\ last_call' = "idle_frame"
    /\ UNCHANGED <<engine, shm, drawer, elastic, rotation, freefall>>

\* update_parameters: a slider moved; all three sliders are read, then reset
AtwoodUpdateParameters ==
    /\ engine = "atwood"
    /\ \E m1 \in AtwoodMasses, m2 \in AtwoodMasses, len \in StringLengths :
          /\ \/ (m2 = atwood.m2 /\ len = atwood.string_length)
             \/ (m1 = atwood.m1 /\ len = atwood.string_length)
             \/ (m1 = atwood.m1 /\ m2 = atwood.m2)
          /\ atwood' = AtwoodResetSimulation(
                          [atwood EXCEPT !.m1 = m1, !.m2 = m2, !.string_length = len])
    /\ last_call' = "update_parameters"
    /\ UNCHANGED <<engine, shm, drawer, elastic, rotation, freefall>>

\* reset_clicked
AtwoodResetClicked ==
    /\ engine = "atwood"
    /\ atwood' = AtwoodResetSimulation(atwood)
    /\ last_call' = "reset_clicked"
    /\ UNCHANGED <<engine, shm, drawer, elastic, rotation, freefall>>

\* pause_clicked
AtwoodPauseClicked ==
    /\ engine = "atwood"
    /\ atwood' = [atwood EXCEPT !.paused = ~atwood.paused]
    /\ last_call' = "pause_clicked"
    /\ UNCHANGED <<engine, shm, drawer, elastic, rotation, freefall>>

(***************************************************************************)
(* RIGID-BODY ROTATION  (src/rigid_body_rotation.py, and the sibling       *)
(* implementation of the same class in src/free_fall_simulation.py)        *)
(* Units: time in ticks of dt = 0.02 s; angle in 1/Radian rad; radius in   *)
(* tenths of a metre; moment of inertia in 1/3000 kg*m^2, so that the four *)
(* shape formulas are whole; alpha is alpha*dt*dt in angle units.          *)
(***************************************************************************)
Radian == 60000

\* 2*pi and 4*pi in angle units (376991.118..., 753982.237...), rounded down.
\* The angles of the model are whole, so "theta > 4*pi" is decided as on the true
\* value; the remainder differs from the true one by less than one unit.
TwoPi == 376991

FourPi == 753982

RotMasses == 1 .. MaxRotMass

RotRadii == {5, 10}

RotTorques == 1 .. MaxTorque

FreefallTorques == 0 .. MaxTorque

ObjectTypes == {"Disk", "Ring", "Rod", "Sphere"}

\* object_types[...]["I_factor"] in 1/30: 0.5, 1.0, 1/3, 0.4
I_factor(type) ==
    CASE type = "Disk" -> 15
      [] type = "Ring" -> 30
      [] type = "Rod" -> 10
      [] type = "Sphere" -> 12

\* MomentOfInertia with a fault: the rod is not treated apart, and gets
\* I_factor*mass*radius**2 like the other shapes.
MomentOfInertiaByFactorOnly(type, mass, radius) ==
    I_factor(type) * mass * radius * radius

\* MomentOfInertia with a fault: the rod's moment of inertia has the wrong sign.
MomentOfInertiaNegativeRod(type, mass, radius) ==
    IF type = "Rod"
    THEN -(10 * mass * (2 * radius) * (2 * radius))
    ELSE I_factor(type) * mass * radius * radius

\* The moment of inertia reset_simulation computes, in 1/3000 kg*m^2:
\* Rod (1/3)*mass*(2*radius)**2, any other shape I_factor*mass*radius**2.
MomentOfInertia(type, mass, radius) ==
    IF type = "Rod"
    THEN 10 * mass * (2 * radius) * (2 * radius)
    ELSE I_factor(type) * mass * radius * radius

\* torque / moment_of_inertia in rad/s^2, times dt*dt, in angle units:
\* torque * 3000 / I * (1/2500) * Radian
TorqueOverInertia(torque, inertia) ==
    (torque * ((3000 * Radian) \div 2500)) \div inertia

\* reset_simulation of src/rigid_body_rotation.py: alpha divides unconditionally
RotationResetSimulation(s) ==
    LET inertia == MomentOfInertia(s.current_type, s.mass, s.radius)
    IN  [s EXCEPT !.current_time = 0,
                  !.theta = 0,
                  !.omega = 0,
                  !.moment_of_inertia = inertia,
                  !.alpha = TorqueOverInertia(s.torque, inertia),
                  !.time_history = << >>,
                  !.theta_history = << >>,
                  !.omega_history = << >>,
                  !.alpha_history = << >>]

\* reset_simulation of src/free_fall_simulation.py: alpha is 0 unless inertia > 0
FreefallResetSimulation(s) ==
    LET inertia == MomentOfInertia(s.current_type, s.mass, s.radius)
    IN  [s EXCEPT !.current_time = 0,
                  !.theta = 0,
                  !.omega = 0,
                  !.moment_of_inertia = inertia,
                  !.alpha = IF inertia > 0
                            THEN TorqueOverInertia(s.torque, inertia)
                            ELSE 0,
                  !.time_history = << >>,
                  !.theta_history = << >>,
                  !.omega_history = << >>,
                  !.alpha_history = << >>]

\* RotationUpdatePhysics with a fault: the test leaves out the pause flag.
RotationUpdatePhysicsWhilePaused(s) ==
    IF BelowTMax(s.current_time)
    THEN LET omega == s.omega + s.alpha
             theta == s.theta + omega
             t     == s.current_time + 1
         IN  [s EXCEPT !.omega = omega,
                       !.theta = theta,
                       !.current_time = t,
                       !.time_history = PushCapped(s.time_history, t),
                       !.theta_history = PushCapped(s.theta_history, theta),
                       !.omega_history = PushCapped(s.omega_history, omega),
                       !.alpha_history = PushCapped(s.alpha_history, s.alpha)]
    ELSE s

\* RotationUpdatePhysics with a fault: theta gains alpha*dt where the source adds
\* omega*dt.
RotationUpdatePhysicsThetaByAlpha(s) ==
    IF ~s.paused /\ BelowTMax(s.current_time)
    THEN LET omega == s.omega + s.alpha
             theta == s.theta + s.alpha
             t     == s.current_time + 1
         IN  [s EXCEPT !.omega = omega,
                       !.theta = theta,
                       !.current_time = t,
                       !.time_history = PushCapped(s.time_history, t),
                       !.theta_history = PushCapped(s.theta_history, theta),
                       !.omega_history = PushCapped(s.omega_history, omega),
                       !.alpha_history = PushCapped(s.alpha_history, s.alpha)]
    ELSE s

\* update_physics of src/rigid_body_rotation.py: the pause / t_max test is inside
RotationUpdatePhysics(s) ==
    IF ~s.paused /\ BelowTMax(s.current_time)
    THEN LET omega == s.omega + s.alpha
             theta == s.theta + omega
             t     == s.current_time + 1
         IN  [s EXCEPT !.omega = omega,
                       !.theta = theta,
                       !.current_time = t,
                       !.time_history = PushCapped(s.time_history, t),
                       !.theta_history = PushCapped(s.theta_history, theta),
                       !.omega_history = PushCapped(s.omega_history, omega),
                       !.alpha_history = PushCapped(s.alpha_history, s.alpha)]
    ELSE s

\* "if theta > 4*pi: theta = theta % (2*pi)"
WrapTheta(theta) == IF theta > FourPi THEN theta % TwoPi ELSE theta

\* update_physics of src/free_fall_simulation.py: unguarded, wraps theta
FreefallUpdatePhysics(s) ==
    LET omega == s.omega + s.alpha
        theta == WrapTheta(s.theta + omega)
        t     == s.current_time + 1
    IN  [s EXCEPT !.omega = omega,
                  !.theta = theta,
                  !.current_time = t,
                  !.time_history = PushCapped(s.time_history, t),
                  !.theta_history = PushCapped(s.theta_history, theta),
                  !.omega_history = PushCapped(s.omega_history, omega),
                  !.alpha_history = PushCapped(s.alpha_history, s.alpha)]

\* setup_parameters: the fields before the first reset_simulation
RotationFields ==
    [mass |-> 1, radius |-> 5, torque |-> 1, moment_of_inertia |-> 0,
     current_type |-> "Disk", theta |-> 0, omega |-> 0, alpha |-> 0,
     current_time |-> 0,
     time_history |-> << >>, theta_history |-> << >>,
     omega_history |-> << >>, alpha_history |-> << >>,
     paused |-> FALSE]

RotationInit == RotationResetSimulation(RotationFields)

FreefallInit == FreefallResetSimulation(RotationFields)

\* animate_frame of src/rigid_body_rotation.py: update_physics on every frame
RotationAnimateFrame ==
    /\ engine = "rotation"
    /\ rotation' = RotationUpdatePhysics(rotation)
    /\ last_call' = IF ~rotation.paused /\ BelowTMax(rotation.current_time)
                    THEN "step" ELSE "idle_frame"
    /\ UNCHANGED <<engine, shm, drawer, atwood, elastic, freefall>>

\* update_parameters: a slider moved; all three sliders are read, then reset
RotationUpdateParameters ==
    /\ engine = "rotation"
    /\ \E mass \in RotMasses, radius \in RotRadii, torque \in RotTorques :
          /\ \/ (radius = rotation.radius /\ torque = rotation.torque)
             \/ (mass = rotation.mass /\ torque = rotation.torque)
             \/ (mass = rotation.mass /\ radius = rotation.radius)
          /\ rotation' = RotationResetSimulation(
                [rotation EXCEPT !.mass = mass, !.radius = radius, !.torque = torque])
    /\ last_call' = "update_parameters"
    /\ UNCHANGED <<engine, shm, drawer, atwood, elastic, freefall>>

\* update_type: a radio button clicked
RotationUpdateType ==
    /\ engine = "rotation"
    /\ \E label \in ObjectTypes :
          rotation' = RotationResetSimulation([rotation EXCEPT !.current_type = label])
    /\ last_call' = "update_type"
    /\ UNCHANGED <<engine, shm, drawer, atwood, elastic, freefall>>

\* reset_clicked
RotationResetClicked ==
    /\ engine = "rotation"
    /\ rotation' = RotationResetSimulation(rotation)
    /\ last_call' = "reset_clicked"
    /\ UNCHANGED <<engine, shm, drawer, atwood, elastic, freefall>>

\* pause_clicked
RotationPauseClicked ==
    /\ engine = "rotation"
    /\ rotation' = [rotation EXCEPT !.paused = ~rotation.paused]
    /\ last_call' = "pause_clicked"
    /\ UNCHANGED <<engine, shm, drawer, atwood, elastic, freefall>>

\* animate_frame of src/free_fall_simulation.py: the pause / t_max test is here
FreefallAnimateFrame ==
    /\ engine = "freefall"
    /\ IF ~freefall.paused /\ BelowTMax(freefall.current_time)
       THEN freefall' = FreefallUpdatePhysics(freefall) /\ last_call' = "step"
       ELSE freefall' = freefall /\ last_call' = "idle_frame"
    /\ UNCHANGED <<engine, shm, drawer, atwood, elastic, rotation>>

\* update_parameters of the sibling
FreefallUpdateParameters ==
    /\ engine = "freefall"
    /\ \E mass \in RotMasses, radius \in RotRadii, torque \in FreefallTorques :
          /\ \/ (radius = freefall.radius /\ torque = freefall.torque)
             \/ (mass = freefall.mass /\ torque = freefall.torque)
             \/ (mass = freefall.mass /\ radius = freefall.radius)
          /\ freefall' = FreefallResetSimulation(
                [freefall EXCEPT !.mass = mass, !.radius = radius, !.torque = torque])
    /\ last_call' = "update_parameters"
    /\ UNCHANGED <<engine, shm, drawer, atwood, elastic, rotation>>

\* update_object_type of the sibling
FreefallUpdateObjectType ==
    /\ engine = "freefall"
    /\ \E label \in ObjectTypes :
          freefall' = FreefallResetSimulation([freefall EXCEPT !.current_type = label])
    /\ last_call' = "update_type"
    /\ UNCHANGED <<engine, shm, drawer, atwood, elastic, rotation>>

\* reset_clicked of the sibling
FreefallResetClicked ==
    /\ engine = "freefall"
    /\ freefall' = FreefallResetSimulation(freefall)
    /\ last_call' = "reset_clicked"
    /\ UNCHANGED <<engine, shm, drawer, atwood, elastic, rotation>>

\* pause_clicked of the sibling
FreefallPauseClicked ==
    /\ engine = "freefall"
    /\ freefall' = [freefall EXCEPT !.paused = ~freefall.paused]
    /\ last_call' = "pause_clicked"
    /\ UNCHANGED <<engine, shm, drawer, atwood, elastic, rotation>>

RotationNext ==
    \/ RotationAnimateFrame
    \/ RotationUpdateParameters
    \/ RotationUpdateType
    \/ RotationResetClicked
    \/ RotationPauseClicked

FreefallNext ==
    \/ FreefallAnimateFrame
    \/ FreefallUpdateParameters
    \/ FreefallUpdateObjectType
    \/ FreefallResetClicked
    \/ FreefallPauseClicked

(***************************************************************************)
(* ELASTIC COLLISION  (src/elastic_collision.py)                           *)
(* Units: time in ticks of dt = 0.01 s; mass in 1/Kg kg; velocity in        *)
(* 1/MPS m/s; position in                                                  *)
(* 1/ElMetre m with ElMetre = 100 * MPS * PosPerVel, so that v*dt is       *)
(* PosPerVel * v.  The collision formulas divide by m1 + m2 and the        *)
(* overlap correction halves; a micro-step whose quotients are not whole   *)
(* in these units is not taken (ElasticWhole), so every value the model    *)
(* holds is the exact real-arithmetic value of the source's formulas.      *)
(* Positions are compared on these exact values.                           *)
(***************************************************************************)
Kg == 2

MPS == 2 * 12 * 12

PosPerVel == 16

ElMetre == 100 * MPS * PosPerVel

wall_left == -5 * ElMetre

wall_right == 5 * ElMetre

block_width == ElMetre \div 2

x1_init == -2 * ElMetre

x2_init == 2 * ElMetre

\* frame_skip = 2 micro-steps per animation frame
frame_skip == 2

\* collision_cooldown = 0.1 s = 10 ticks of dt
collision_cooldown == 10

\* last_collision_time = -1.0 at reset, in ticks
NoCollisionYet == -100

\* The slider values explored (masses 0.1 .. 5.0 kg; velocities -5.0 .. 5.0 m/s;
\* the sliders are continuous): masses 1, 3 and 0.5, 2, 5 kg, velocities
\* 2, 4.5, -2, -2.1875 and -1, -4.5, -5, -4.982638... m/s
ElasticM1 == {Kg, 3 * Kg}

ElasticM2 == {Kg \div 2, 2 * Kg, 5 * Kg}

ElasticV1 == {2 * MPS, (9 * MPS) \div 2, -2 * MPS, -630}

ElasticV2 == {-MPS, -((9 * MPS) \div 2), -5 * MPS, -1435}

\* "self.t - self.last_collision_time > self.collision_cooldown" with t the running
\* double sum of dt = 0.01.  More than 10 ticks apart it holds and fewer than 10 it
\* fails in doubles as in reals; exactly 10 ticks apart the doubles decide it: for a
\* collision at tick n the difference t(n+10) - t(n) exceeds 0.1 exactly when
\* 8 <= n <= 189 (computed for every n < 400, which covers MaxTicks).
CooldownOver(t, last) ==
    \/ t - last > collision_cooldown
    \/ (t - last = collision_cooldown /\ last >= 8 /\ last <= 189)

\* reset_simulation
ElasticResetSimulation(s) ==
    [s EXCEPT !.x1 = x1_init,
              !.x2 = x2_init,
              !.current_v1 = s.v1,
              !.current_v2 = s.v2,
              !.t = 0,
              !.last_collision_time = NoCollisionYet]

\* update_positions, lines 59-62: advance the positions and the time
ElasticAdvance(s) ==
    [s EXCEPT !.x1 = s.x1 + s.current_v1 * PosPerVel,
              !.x2 = s.x2 + s.current_v2 * PosPerVel,
              !.t = s.t + 1]

\* WallBounce with a fault: the wall stops the block instead of reflecting it.
WallBounceStopping(x, v) ==
    IF x - block_width \div 2 <= wall_left
    THEN <<wall_left + block_width \div 2, 0>>
    ELSE IF x + block_width \div 2 >= wall_right
         THEN <<wall_right - block_width \div 2, 0>>
         ELSE <<x, v>>

\* One block against the walls: <<x, v>> after the if / elif of lines 65-70
WallBounce(x, v) ==
    IF x - block_width \div 2 <= wall_left
    THEN <<wall_left + block_width \div 2, -v>>
    ELSE IF x + block_width \div 2 >= wall_right
         THEN <<wall_right - block_width \div 2, -v>>
         ELSE <<x, v>>

\* update_positions, lines 64-78: wall collisions of block 1, then of block 2
ElasticWalls(s) ==
    LET b1 == WallBounce(s.x1, s.current_v1)
        b2 == WallBounce(s.x2, s.current_v2)
    IN  [s EXCEPT !.x1 = b1[1], !.current_v1 = b1[2],
                  !.x2 = b2[1], !.current_v2 = b2[2]]

\* CollisionTriggered with a fault: the cooldown is not tested.
CollisionTriggeredWithoutCooldown(s) ==
    /\ Abs(s.x1 - s.x2) <= block_width
    /\ LET relative_velocity == s.current_v1 - s.current_v2
       IN  \/ (s.x1 < s.x2 /\ relative_velocity > 0)
           \/ (s.x1 > s.x2 /\ relative_velocity < 0)

\* The two nested conditions of the block-block collision, lines 81-90
CollisionTriggered(s) ==
    /\ Abs(s.x1 - s.x2) <= block_width
    /\ CooldownOver(s.t, s.last_collision_time)
    /\ LET relative_velocity == s.current_v1 - s.current_v2
       IN  \/ (s.x1 < s.x2 /\ relative_velocity > 0)
           \/ (s.x1 > s.x2 /\ relative_velocity < 0)

\* V1New with a fault: the transfer term 2*m2*v2 without its factor 2.
V1NewNoDoubling(m1, m2, v1, v2) == ((m1 - m2) * v1 + m2 * v2) \div (m1 + m2)

\* V1New with a fault: the first term is m1*v1 where the source has (m1 - m2)*v1.
V1NewWithoutMassDifference(m1, m2, v1, v2) == (m1 * v1 + 2 * m2 * v2) \div (m1 + m2)

\* v1_new of lines 101-104
V1New(m1, m2, v1, v2) == ((m1 - m2) * v1 + 2 * m2 * v2) \div (m1 + m2)

\* V2New with a fault: the transfer term uses m2 where the source has m1.
V2NewWrongMass(m1, m2, v1, v2) == ((m2 - m1) * v2 + 2 * m2 * v1) \div (m1 + m2)

\* v2_new of lines 105-108
V2New(m1, m2, v1, v2) == ((m2 - m1) * v2 + 2 * m1 * v1) \div (m1 + m2)

\* SeparateBlocks with a fault: block 1 alone is moved, by the whole overlap.
SeparateBlocksMovingOne(x1, x2) ==
    LET overlap == block_width - Abs(x1 - x2)
    IN  IF x1 < x2 THEN <<x1 - overlap, x2>> ELSE <<x1 + overlap, x2>>

\* The overlap correction, lines 92-98: <<x1, x2>> pushed apart
SeparateBlocks(x1, x2) ==
    LET overlap == block_width - Abs(x1 - x2)
    IN  IF x1 < x2
        THEN <<x1 - overlap \div 2, x2 + overlap \div 2>>
        ELSE <<x1 + overlap \div 2, x2 - overlap \div 2>>

\* The collision response, lines 91-112
CollisionResponse(s) ==
    LET x == SeparateBlocks(s.x1, s.x2)
    IN  [s EXCEPT !.x1 = x[1],
                  !.x2 = x[2],
                  !.current_v1 = V1New(s.m1, s.m2, s.current_v1, s.current_v2),
                  !.current_v2 = V2New(s.m1, s.m2, s.current_v1, s.current_v2),
                  !.last_collision_time = s.t]

\* update_positions, lines 80-112: the block-block collision
ElasticCollide(s) == IF CollisionTriggered(s) THEN CollisionResponse(s) ELSE s

\* update_positions: one micro-step
ElasticUpdatePositions(s) == ElasticCollide(ElasticWalls(ElasticAdvance(s)))

\* The micro-step from s divides without remainder (see the units above).
ElasticWhole(s) ==
    LET a == ElasticWalls(ElasticAdvance(s))
    IN  CollisionTriggered(a) =>
           /\ (block_width - Abs(a.x1 - a.x2)) % 2 = 0
           /\ ((a.m1 - a.m2) * a.current_v1 + 2 * a.m2 * a.current_v2) % (a.m1 + a.m2) = 0
           /\ ((a.m2 - a.m1) * a.current_v2 + 2 * a.m1 * a.current_v1) % (a.m1 + a.m2) = 0

\* The states s passes through in "for _ in range(n): self.update_positions()":
\* MicroStates(n, s)[i] is the object after i micro-steps.
MicroStates(n, s) ==
    LET after[i \in 0 .. n] ==
            IF i = 0 THEN s ELSE ElasticUpdatePositions(after[i - 1])
    IN  after

\* "for _ in range(n): self.update_positions()"
MicroSteps(n, s) == MicroStates(n, s)[n]

\* Every one of the n micro-steps from s is whole.
MicroStepsWhole(n, s) ==
    \A i \in 0 .. n - 1 : ElasticWhole(MicroStates(n, s)[i])

\* setup_parameters and setup_plot: the object after construction
ElasticInit ==
    ElasticResetSimulation(
        [m1 |-> Kg, m2 |-> 2 * Kg, v1 |-> 2 * MPS, v2 |-> -MPS,
         x1 |-> 0, x2 |-> 0, current_v1 |-> 0, current_v2 |-> 0,
         t |-> 0, last_collision_time |-> NoCollisionYet,
         is_paused |-> FALSE])

\* update_animation: one timer frame, frame_skip micro-steps unless paused
ElasticUpdateAnimation ==
    /\ engine = "elastic"
    /\ elastic.is_paused \/ (elastic.t < MaxTicks /\ MicroStepsWhole(frame_skip, elastic))
    /\ IF ~elastic.is_paused
       THEN elastic' = MicroSteps(frame_skip, elastic) /\ last_call' = "step"
       ELSE elastic' = elastic /\ last_call' = "idle_frame"
    /\ UNCHANGED <<engine, shm, drawer, atwood, rotation, freefall>>

\* update_params: a slider moved; the four sliders are read, nothing else changes
ElasticUpdateParams ==
    /\ engine = "elastic"
    /\ elastic.t <= SliderFrames * frame_skip
    /\ \E m1 \in ElasticM1, m2 \in ElasticM2, v1 \in ElasticV1, v2 \in ElasticV2 :
          /\ \/ (m2 = elastic.m2 /\ v1 = elastic.v1 /\ v2 = elastic.v2)
             \/ (m1 = elastic.m1 /\ v1 = elastic.v1 /\ v2 = elastic.v2)
             \/ (m1 = elastic.m1 /\ m2 = elastic.m2 /\ v2 = elastic.v2)
             \/ (m1 = elastic.m1 /\ m2 = elastic.m2 /\ v1 = elastic.v1)
          /\ elastic' = [elastic EXCEPT !.m1 = m1, !.m2 = m2, !.v1 = v1, !.v2 = v2]
    /\ last_call' = "update_parameters"
    /\ UNCHANGED <<engine, shm, drawer, atwood, rotation, freefall>>

\* reset: the Reset button
ElasticReset ==
    /\ engine = "elastic"
    /\ elastic' = [ElasticResetSimulation(elastic) EXCEPT !.is_paused = FALSE]
    /\ last_call' = "reset_clicked"
    /\ UNCHANGED <<engine, shm, drawer, atwood, rotation, freefall>>

\* toggle_pause
ElasticTogglePause ==
    /\ engine = "elastic"
    /\ elastic' = [elastic EXCEPT !.is_paused = ~elastic.is_paused]
    /\ last_call' = "pause_clicked"
    /\ UNCHANGED <<engine, shm, drawer, atwood, rotation, freefall>>

ElasticNext ==
    \/ ElasticUpdateAnimation
    \/ ElasticUpdateParams
    \/ ElasticReset
    \/ ElasticTogglePause

(***************************************************************************)
(* LINE SNAP / TRIM TOOL  (src/snap_line.py, launched by launch_snapline   *)
(* of src/home_screen.py)                                                  *)
(* Units: coordinates on an integer grid of Unit points per axis unit;     *)
(* angles in whole degrees; cosines in thousandths.  The curve samples     *)
(* have even coordinates, so the sum of the two endpoint coordinates of    *)
(* the line is always even and the midpoint of snap is a grid point.       *)
(* Python indices start at 0 and sequence indices at 1: self.x[idx] is     *)
(* s.x[idx + 1].                                                           *)
(***************************************************************************)
\* Grid points per axis unit (the axes span -1.0 .. 1.0 in both directions)
Unit == 4

\* The number of curve samples (the launcher's linspace has 200)
CurveLen == 5

\* move_line and snap are explored while both components of line_offset stay
\* within MaxOffset grid points
MaxOffset == 2

\* rotate_line is explored within MaxTurn degrees of an angle of AngleTexts
MaxTurn == 1

\* The angle typed into the angle box, in degrees
AngleTexts == {30}

\* The x values typed into the snap box, in grid points
SnapTexts == {-1, 3}

\* The steps of on_key_press, in grid points: the plain keys move by the fine step
\* and the ctrl keys by the coarse step, along one axis
MoveSteps == {<<0, 2>>, <<0, -2>>, <<-2, 0>>, <<2, 0>>,
              <<0, 1>>, <<0, -1>>, <<-1, 0>>, <<1, 0>>}

\* The degrees of on_key_press: "[" rotates by 1 and "]" by -1
RotateSteps == {1, -1}

\* a / b rounded to the nearest integer (b > 0), halves away from zero
RoundDiv(a, b) ==
    IF a >= 0 THEN (2 * a + b) \div (2 * b) ELSE -((2 * (-a) + b) \div (2 * b))

\* 1000 * cos(d degrees) for d = 0 .. 90, rounded
Cos1000Table ==
    <<1000, 1000, 999, 999, 998, 996, 995, 993, 990, 988,
      985, 982, 978, 974, 970, 966, 961, 956, 951, 946,
      940, 934, 927, 921, 914, 906, 899, 891, 883, 875,
      866, 857, 848, 839, 829, 819, 809, 799, 788, 777,
      766, 755, 743, 731, 719, 707, 695, 682, 669, 656,
      643, 629, 616, 602, 588, 574, 559, 545, 530, 515,
      500, 485, 469, 454, 438, 423, 407, 391, 375, 358,
      342, 326, 309, 292, 276, 259, 242, 225, 208, 191,
      174, 156, 139, 122, 105, 87, 70, 52, 35, 17,
      0>>

\* np.cos(np.radians(deg)) in thousandths
Cos1000(deg) ==
    LET r == deg % 360
    IN  IF r <= 90 THEN Cos1000Table[r + 1]
        ELSE IF r <= 180 THEN -Cos1000Table[180 - r + 1]
        ELSE IF r <= 270 THEN -Cos1000Table[r - 180 + 1]
        ELSE Cos1000Table[360 - r + 1]

\* np.sin(np.radians(deg)) in thousandths
Sin1000(deg) == Cos1000(deg - 90)

\* launch_snapline: x_quad, evenly spaced samples about 0, two grid points apart
x_quad == [i \in 1 .. CurveLen |-> 2 * (i - 1) - 2 * (CurveLen \div 2)]

\* launch_snapline: y_quad = 2 * x_quad**2 - 0.4, in grid points (0.4 is 2 of them)
y_quad == [i \in 1 .. CurveLen |-> (2 * x_quad[i] * x_quad[i]) \div Unit - 2]

\* np.hypot(xlim[1] - xlim[0], ylim[1] - ylim[0]) for the launcher's limits
\* (-1.0, 1.0): 2.828..., in thousandths of an axis unit
full_length == 2828

\* self.line is None
NoLine == << >>

\* Line2D([xa, xb], [ya, yb]): the value get_data() returns
Line2D(xa, xb, ya, yb) == << <<xa, xb>>, <<ya, yb>> >>

\* LineDrawer.__init__
LineDrawerInit ==
    [x |-> x_quad, y |-> y_quad, line |-> NoLine, angle |-> 0,
     line_offset |-> <<0, 0>>, snap_target_index |-> 100]

\* launch_snapline: the drawer, then "snap_target_index = len(x_quad) // 2"
LaunchSnapline ==
    [LineDrawerInit EXCEPT !.snap_target_index = Len(x_quad) \div 2]

\* insert_line_at_angle with a numeric text
InsertLineAtAngle(s, angle) ==
    LET x_end == RoundDiv(full_length * Cos1000(angle) * Unit, 2 * 1000 * 1000)
        y_end == RoundDiv(full_length * Sin1000(angle) * Unit, 2 * 1000 * 1000)
    IN  [s EXCEPT !.angle = angle,
                  !.line = Line2D(-x_end + s.line_offset[1], x_end + s.line_offset[1],
                                  -y_end + s.line_offset[2], y_end + s.line_offset[2])]

\* MoveLine with a fault: the line is moved and line_offset is left as it was.
MoveLineWithoutOffset(s, dx, dy) ==
    [s EXCEPT !.line = IF s.line # NoLine
                       THEN Line2D(s.line[1][1] + dx, s.line[1][2] + dx,
                                   s.line[2][1] + dy, s.line[2][2] + dy)
                       ELSE NoLine]

\* move_line: the line, if there is one, and line_offset in any case
MoveLine(s, dx, dy) ==
    [s EXCEPT !.line = IF s.line # NoLine
                       THEN Line2D(s.line[1][1] + dx, s.line[1][2] + dx,
                                   s.line[2][1] + dy, s.line[2][2] + dy)
                       ELSE NoLine,
              !.line_offset = <<s.line_offset[1] + dx, s.line_offset[2] + dy>>]

\* RotateLine with a fault: the angle is turned whether there is a line or not.
RotateLineWithoutTest(s, deg) ==
    LET angle == s.angle + deg
        x_end == RoundDiv(Unit * Cos1000(angle), 1000)
        y_end == RoundDiv(Unit * Sin1000(angle), 1000)
    IN  [s EXCEPT !.angle = angle,
                  !.line = IF s.line # NoLine
                           THEN Line2D(-x_end + s.line_offset[1], x_end + s.line_offset[1],
                                       -y_end + s.line_offset[2], y_end + s.line_offset[2])
                           ELSE NoLine]

\* RotateLine with a fault: the new segment is centred on the origin, line_offset
\* is not re-applied.
RotateLineAboutOrigin(s, deg) ==
    IF s.line # NoLine
    THEN LET angle == s.angle + deg
             x_end == RoundDiv(Unit * Cos1000(angle), 1000)
             y_end == RoundDiv(Unit * Sin1000(angle), 1000)
         IN  [s EXCEPT !.angle = angle,
                       !.line = Line2D(-x_end, x_end, -y_end, y_end)]
    ELSE s

\* rotate_line: nothing without a line; "length = 1" is the half-length
RotateLine(s, deg) ==
    IF s.line # NoLine
    THEN LET angle == s.angle + deg
             x_end == RoundDiv(Unit * Cos1000(angle), 1000)
             y_end == RoundDiv(Unit * Sin1000(angle), 1000)
         IN  [s EXCEPT !.angle = angle,
                       !.line = Line2D(-x_end + s.line_offset[1], x_end + s.line_offset[1],
                                       -y_end + s.line_offset[2], y_end + s.line_offset[2])]
    ELSE s

\* np.argmin(np.abs(self.x - x_val)): the first index of the least value
UpdateSnapIndex(s, x_val) ==
    LET d(i) == Abs(s.x[i + 1] - x_val)
        idx == CHOOSE i \in 0 .. Len(s.x) - 1 :
                  /\ \A k \in 0 .. Len(s.x) - 1 : d(i) <= d(k)
                  /\ \A k \in 0 .. i - 1 : d(k) > d(i)
    IN  [s EXCEPT !.snap_target_index = idx]

\* Snap with a fault: the first endpoint, not the midpoint, goes to the target.
SnapFirstEndpoint(s) ==
    IF s.line = NoLine
    THEN s
    ELSE LET idx == s.snap_target_index
             dx == s.x[idx + 1] - s.line[1][1]
             dy == s.y[idx + 1] - s.line[2][1]
         IN  [s EXCEPT !.line = Line2D(s.line[1][1] + dx, s.line[1][2] + dx,
                                       s.line[2][1] + dy, s.line[2][2] + dy),
                       !.line_offset = <<s.line_offset[1] + dx, s.line_offset[2] + dy>>]

\* snap: translate the line so that its midpoint is the target sample.  An index
\* beyond the curve makes "self.x[idx]" of line 128 raise IndexError, before
\* anything is changed.
Snap(s) ==
    IF s.line = NoLine \/ s.snap_target_index >= Len(s.x)
    THEN s
    ELSE LET idx == s.snap_target_index
             x_targ == s.x[idx + 1]
             y_targ == s.y[idx + 1]
             mx == (s.line[1][1] + s.line[1][2]) \div 2
             my == (s.line[2][1] + s.line[2][2]) \div 2
             dx == x_targ - mx
             dy == y_targ - my
         IN  [s EXCEPT !.line = Line2D(s.line[1][1] + dx, s.line[1][2] + dx,
                                       s.line[2][1] + dy, s.line[2][2] + dy),
                       !.line_offset = <<s.line_offset[1] + dx, s.line_offset[2] + dy>>]

\* np.clip(a, lo, hi)
Clip(a, lo, hi) == IF a < lo THEN lo ELSE IF a > hi THEN hi ELSE a

\* point_line_dist of trim, for the segment line and the point (xp, yp).  With
\* n = dx**2 + dy**2 the source's t is a fraction of denominator n; the value here
\* is (n * distance)**2, which orders the points as the distance does.
PointLineDist(line, xp, yp) ==
    LET x0 == line[1][1]
        y0 == line[2][1]
        dx == line[1][2] - x0
        dy == line[2][2] - y0
        n  == dx * dx + dy * dy
        t  == Clip((xp - x0) * dx + (yp - y0) * dy, 0, n)
        ex == n * (xp - x0) - t * dx
        ey == n * (yp - y0) - t * dy
    IN  ex * ex + ey * ey

\* dists = point_line_dist(self.x, self.y), by Python index
Dists(s) == [i \in 0 .. Len(s.x) - 1 |-> PointLineDist(s.line, s.x[i + 1], s.y[i + 1])]

\* np.argsort(dists)[:2]: an index of the least distance, then an index of the
\* least distance among the others; equal distances come in either order
ArgSortFirstTwo(dists) ==
    {<<a, b>> \in (DOMAIN dists) \X (DOMAIN dists) :
        /\ \A k \in DOMAIN dists : dists[a] <= dists[k]
        /\ b # a
        /\ \A k \in DOMAIN dists \ {a} : dists[b] <= dists[k]}

\* Trim with a fault: the two indices are used in argsort's order, nearest first.
TrimNearestFirst(s, idxs) ==
    [s EXCEPT !.line = Line2D(s.x[idxs[1] + 1], s.x[idxs[2] + 1],
                              s.y[idxs[1] + 1], s.y[idxs[2] + 1])]

\* trim with the two indices idxs that argsort gave: np.sort, then set_data
Trim(s, idxs) ==
    LET idx1 == IF idxs[1] < idxs[2] THEN idxs[1] ELSE idxs[2]
        idx2 == IF idxs[1] < idxs[2] THEN idxs[2] ELSE idxs[1]
    IN  [s EXCEPT !.line = Line2D(s.x[idx1 + 1], s.x[idx2 + 1],
                                  s.y[idx1 + 1], s.y[idx2 + 1])]

\* The line_offset is within MaxOffset grid steps of the origin, counted
\* along the axes as the arrow keys move it.
OffsetInWindow(offset) == Abs(offset[1]) + Abs(offset[2]) <= MaxOffset

\* The angle box submitted: a numeric text, or a text float() rejects
DrawerInsertLineAtAngle ==
    /\ engine = "snapline"
    /\ \/ \E angle \in AngleTexts : drawer' = InsertLineAtAngle(drawer, angle)
       \/ drawer' = drawer
    /\ last_call' = "insert_line_at_angle"
    /\ UNCHANGED <<engine, shm, atwood, elastic, rotation, freefall>>

\* on_key_press with one of the eight move keys
DrawerMoveLine ==
    /\ engine = "snapline"
    /\ \E step \in MoveSteps :
          /\ OffsetInWindow(MoveLine(drawer, step[1], step[2]).line_offset)
          /\ drawer' = MoveLine(drawer, step[1], step[2])
    /\ last_call' = "move_line"
    /\ UNCHANGED <<engine, shm, atwood, elastic, rotation, freefall>>

\* on_key_press with "[" or "]": with a line, explored while the angle stays within
\* MaxTurn degrees of a typed one
DrawerRotateLine ==
    /\ engine = "snapline"
    /\ \E deg \in RotateSteps :
          /\ \/ drawer.line = NoLine
             \/ \E a \in AngleTexts : Abs(RotateLine(drawer, deg).angle - a) <= MaxTurn
          /\ drawer' = RotateLine(drawer, deg)
    /\ last_call' = "rotate_line"
    /\ UNCHANGED <<engine, shm, atwood, elastic, rotation, freefall>>

\* The snap box submitted: a numeric text, or a text float() rejects
DrawerUpdateSnapIndex ==
    /\ engine = "snapline"
    /\ \/ \E x_val \in SnapTexts : drawer' = UpdateSnapIndex(drawer, x_val)
       \/ drawer' = drawer
    /\ last_call' = "update_snap_index"
    /\ UNCHANGED <<engine, shm, atwood, elastic, rotation, freefall>>

\* The SNAP! button
DrawerSnap ==
    /\ engine = "snapline"
    /\ OffsetInWindow(Snap(drawer).line_offset)
    /\ drawer' = Snap(drawer)
    /\ last_call' = "snap"
    /\ UNCHANGED <<engine, shm, atwood, elastic, rotation, freefall>>

\* The TRIM button
DrawerTrim ==
    /\ engine = "snapline"
    /\ IF drawer.line = NoLine
       THEN drawer' = drawer
       ELSE \E idxs \in ArgSortFirstTwo(Dists(drawer)) : drawer' = Trim(drawer, idxs)
    /\ last_call' = "trim"
    /\ UNCHANGED <<engine, shm, atwood, elastic, rotation, freefall>>

DrawerNext ==
    \/ DrawerInsertLineAtAngle
    \/ DrawerMoveLine
    \/ DrawerRotateLine
    \/ DrawerUpdateSnapIndex
    \/ DrawerSnap
    \/ DrawerTrim

(***************************************************************************)
(* SIMPLE HARMONIC MOTION  (src/SHO.py, launched by launch_shm of          *)
(* src/home_screen.py)                                                     *)
(* Units: every parameter in tenths (the sliders step by 0.1) except FPS,  *)
(* which is whole.  The sample arrays t, x, v and the energies that        *)
(* compute_shm fills are functions of params alone; the model keeps their  *)
(* common length, n_samples.  The value of a slider is whatever the Slider *)
(* object holds when Submit is clicked: submit reads it and tests it.      *)
(***************************************************************************)
ShmKeys == {"Amplitude", "Mass", "Spring Constant", "Phase", "Duration", "FPS"}

\* defaults, lines 7-14
defaults ==
    [key \in ShmKeys |->
        CASE key = "Amplitude" -> 10
          [] key = "Mass" -> 10
          [] key = "Spring Constant" -> 10
          [] key = "Phase" -> 0
          [] key = "Duration" -> 100
          [] key = "FPS" -> 60]

\* slider_params, lines 188-195: <<vmin, vmax>> of each slider (the Phase slider
\* spans -pi .. pi, here the whole tenths within)
slider_params ==
    [key \in ShmKeys |->
        CASE key = "Amplitude" -> <<1, 50>>
          [] key = "Mass" -> <<1, 100>>
          [] key = "Spring Constant" -> <<1, 100>>
          [] key = "Phase" -> <<-31, 31>>
          [] key = "Duration" -> <<10, 200>>
          [] key = "FPS" -> <<10, 120>>]

\* The keys submit tests for "value <= 0"
PositiveKeys == {"Mass", "Spring Constant", "Duration", "FPS"}

\* The slider values explored, per key: the default, another value, and for most
\* keys a value that is not positive
SliderValues ==
    [key \in ShmKeys |->
        CASE key = "Amplitude" -> {-10, 10, 25}
          [] key = "Mass" -> {0, 10, 20}
          [] key = "Spring Constant" -> {-10, 10}
          [] key = "Phase" -> {-10, 0}
          [] key = "Duration" -> {0, 100, 50}
          [] key = "FPS" -> {0, 60, 30}]

\* compute_shm: len(self.t) = int(fps * duration)
NSamples(params) == (params["FPS"] * params["Duration"]) \div 10

\* The loop of submit finds a slider value it resets to the default.
SubmitResets(s, key) == key \in PositiveKeys /\ s.sliders[key] <= 0

\* Submit with a fault: a batch with an invalid field is rejected as a whole, and
\* params keeps its old values.
SubmitRejectingBatch(s) ==
    IF \E key \in ShmKeys : SubmitResets(s, key)
    THEN [s EXCEPT !.animating = FALSE]
    ELSE [s EXCEPT !.params = s.sliders,
                   !.n_samples = NSamples(s.sliders),
                   !.animating = FALSE]

\* submit: each slider read and tested, compute_shm, the animation stopped
Submit(s) ==
    LET sliders == [key \in ShmKeys |->
                       IF SubmitResets(s, key) THEN defaults[key] ELSE s.sliders[key]]
        params  == [key \in ShmKeys |->
                       IF SubmitResets(s, key) THEN defaults[key] ELSE s.sliders[key]]
    IN  [s EXCEPT !.sliders = sliders,
                  !.params = params,
                  !.n_samples = NSamples(params),
                  !.animating = FALSE]

\* SHMSimulator.__init__ with the setup_ui of ImprovedSHMSimulator
ShmInit ==
    [params |-> defaults, sliders |-> defaults,
     n_samples |-> NSamples(defaults), animating |-> FALSE]

\* A slider is set to a value: no callback is connected to the sliders
ShmSliderChanged ==
    /\ engine = "shm"
    /\ \E key \in ShmKeys : \E value \in SliderValues[key] :
          shm' = [shm EXCEPT !.sliders[key] = value]
    /\ last_call' = "slider_changed"
    /\ UNCHANGED <<engine, atwood, elastic, rotation, freefall, drawer>>

\* The Submit button; "submit_invalid" when a field was reset ("Invalid input ...")
ShmSubmit ==
    /\ engine = "shm"
    /\ shm' = Submit(shm)
    /\ last_call' = IF \E key \in ShmKeys : SubmitResets(shm, key)
                    THEN "submit_invalid" ELSE "submit"
    /\ UNCHANGED <<engine, atwood, elastic, rotation, freefall, drawer>>

\* toggle_animation: the Start/Stop button
ShmToggleAnimation ==
    /\ engine = "shm"
    /\ shm' = [shm EXCEPT !.animating = ~shm.animating]
    /\ last_call' = "toggle_animation"
    /\ UNCHANGED <<engine, atwood, elastic, rotation, freefall, drawer>>

\* clear_animation: the Clear button
ShmClearAnimation ==
    /\ engine = "shm"
    /\ shm' = [shm EXCEPT !.animating = FALSE]
    /\ last_call' = "clear_animation"
    /\ UNCHANGED <<engine, atwood, elastic, rotation, freefall, drawer>>

ShmNext ==
    \/ ShmSliderChanged
    \/ ShmSubmit
    \/ ShmToggleAnimation
    \/ ShmClearAnimation

AtwoodNext ==
    \/ AtwoodAnimateFrame
    \/ AtwoodUpdateParameters
    \/ AtwoodResetClicked
    \/ AtwoodPauseClicked

\* One simulation is launched, from the home screen or (the sibling rotation
\* engine) as a script; every object is as constructed.
Launched(e) ==
    /\ engine = e
    /\ atwood = AtwoodInit
    /\ elastic = ElasticInit
    /\ rotation = RotationInit
    /\ freefall = FreefallInit
    /\ drawer = LaunchSnapline
    /\ shm = ShmInit
    /\ last_call = "init"

InitAtwood == Launched("atwood")

InitElastic == Launched("elastic")

InitRotation == Launched("rotation")

InitFreefall == Launched("freefall")

SpecAtwood == InitAtwood /\ [][AtwoodNext]_vars

SpecElastic == InitElastic /\ [][ElasticNext]_vars

SpecRotation == InitRotation /\ [][RotationNext]_vars

SpecFreefall == InitFreefall /\ [][FreefallNext]_vars

InitSnapline == Launched("snapline")

SpecSnapline == InitSnapline /\ [][DrawerNext]_vars

\* The line utility as its constructor leaves it, over the curve of a host that
\* does not set snap_target_index afterwards.
InitLineDrawer ==
    /\ engine = "snapline"
    /\ atwood = AtwoodInit
    /\ elastic = ElasticInit
    /\ rotation = RotationInit
    /\ freefall = FreefallInit
    /\ drawer = LineDrawerInit
    /\ shm = ShmInit
    /\ last_call = "init"

SpecLineDrawer == InitLineDrawer /\ [][DrawerNext]_vars

InitShm == Launched("shm")

SpecShm == InitShm /\ [][ShmNext]_vars

\* The four physics engines together: the home screen launches any one of them.
Engines == {"atwood", "elastic", "rotation", "freefall"}

InitEngines == \E e \in Engines : Launched(e)

EnginesNext == AtwoodNext \/ ElasticNext \/ RotationNext \/ FreefallNext

SpecEngines == InitEngines /\ [][EnginesNext]_vars

\* The engines that keep a history: the Atwood machine and both rotation engines.
HistoryEngines == {"atwood", "rotation", "freefall"}

InitHistories == \E e \in HistoryEngines : Launched(e)

HistoriesNext == AtwoodNext \/ RotationNext \/ FreefallNext

SpecHistories == InitHistories /\ [][HistoriesNext]_vars

\* The engines with a run of t_max seconds, under the animation timer: its frames
\* keep coming, so a frame that would change the state is eventually taken.
SpecTimer ==
    /\ InitHistories
    /\ [][HistoriesNext]_vars
    /\ WF_vars(AtwoodAnimateFrame)
    /\ WF_vars(RotationAnimateFrame)
    /\ WF_vars(FreefallAnimateFrame)

(***************************************************************************)
(* PROPERTIES                                                              *)
(***************************************************************************)

\* C1: Atwood engine: after every call of update_physics, from any reachable state
\* and for every string_length of the slider range, the separation |y1 - y2| is at
\* most string_length.
C1_SeparationWithinString ==
    (engine = "atwood" /\ last_call = "step")
        => Abs(atwood.y1 - atwood.y2) <= atwood.string_length

\* C1 happens: a step at the longest string with the masses held at exactly the
\* string length, mass 1 below mass 2 (the projection's second branch).
C1_Witness ==
    /\ engine = "atwood"
    /\ last_call = "step"
    /\ atwood.string_length = 6 * Metre
    /\ atwood.y2 - atwood.y1 = atwood.string_length

\* C5: Atwood engine: in every state reachable by steps, pauses, resets and
\* parameter changes, v1 = -v2.
C5_OppositeVelocities == engine = "atwood" => atwood.v1 = -atwood.v2

\* C5 happens: the masses move, the string constraint has projected the positions,
\* and the parameters are no longer the constructed ones.
C5_Witness ==
    /\ engine = "atwood"
    /\ last_call = "step"
    /\ atwood.v1 < 0
    /\ atwood.m1 = 3
    /\ Abs(atwood.y1 - atwood.y2) = atwood.string_length

\* The state of the elastic engine after micro-step i of the frame being taken:
\* the last one is the state the frame leaves.
AfterMicroStep(i) ==
    IF i = frame_skip THEN elastic' ELSE MicroStates(frame_skip, elastic)[i]

\* The state before micro-step i of the frame being taken.
BeforeMicroStep(i) == MicroStates(frame_skip, elastic)[i - 1]

\* A block of width block_width centred at x lies between the walls.
BetweenWalls(x) ==
    wall_left <= x - block_width \div 2 /\ x + block_width \div 2 <= wall_right

\* C2: elastic-collision engine: after every micro-step, in every reachable state,
\* each block lies entirely between the walls (also when a wall bounce and an
\* overlap correction occur in the same micro-step).
C2_BlocksBetweenWalls ==
    [][(engine = "elastic" /\ last_call' = "step") =>
          \A i \in 1 .. frame_skip :
             /\ BetweenWalls(AfterMicroStep(i).x1)
             /\ BetweenWalls(AfterMicroStep(i).x2)]_vars

\* Micro-step i of the frame being taken ran the block-block collision response.
CollidedIn(i) == AfterMicroStep(i).last_collision_time = AfterMicroStep(i).t

\* Micro-step i of the frame being taken reflected a block at a wall.
WallReflectedIn(i) ==
    LET a == ElasticAdvance(BeforeMicroStep(i))
        w == ElasticWalls(a)
    IN  w.current_v1 # a.current_v1 \/ w.current_v2 # a.current_v2

\* m1*v1 + m2*v2
Momentum(s) == s.m1 * s.current_v1 + s.m2 * s.current_v2

\* m1*v1^2 + m2*v2^2, twice the kinetic energy
TwiceKineticEnergy(s) ==
    s.m1 * s.current_v1 * s.current_v1 + s.m2 * s.current_v2 * s.current_v2

\* C3: elastic-collision engine: a block-block collision response with no wall
\* reflection in the same micro-step conserves the total momentum m1*v1 + m2*v2.
C3_MomentumConserved ==
    [][(engine = "elastic" /\ last_call' = "step") =>
          \A i \in 1 .. frame_skip :
             (CollidedIn(i) /\ ~WallReflectedIn(i)) =>
                 Momentum(AfterMicroStep(i)) = Momentum(BeforeMicroStep(i))]_vars

\* C3 happens: the frame's last micro-step was a collision of the heavy pair, both
\* blocks more than a block width away from either wall, the light block thrown back.
C3_Witness ==
    /\ engine = "elastic"
    /\ last_call = "step"
    /\ elastic.last_collision_time = elastic.t
    /\ elastic.m1 = 3 * Kg /\ elastic.m2 = 5 * Kg
    /\ Abs(elastic.x1) < wall_right - 2 * block_width
    /\ Abs(elastic.x2) < wall_right - 2 * block_width
    /\ elastic.current_v1 < 0

\* C4: elastic-collision engine: across a single block-block collision response
\* the total kinetic energy 0.5*m1*v1^2 + 0.5*m2*v2^2 is the same before and
\* after the velocity update.
C4_KineticEnergyConserved ==
    [][(engine = "elastic" /\ last_call' = "step") =>
          \A i \in 1 .. frame_skip :
             CollidedIn(i) =>
                 TwiceKineticEnergy(AfterMicroStep(i)) =
                     TwiceKineticEnergy(ElasticWalls(ElasticAdvance(BeforeMicroStep(i))))]_vars

\* C4 happens: a collision has just exchanged energy between the constructed pair:
\* block 1 came in at 2 m/s and leaves at another speed.
C4_Witness ==
    /\ engine = "elastic"
    /\ last_call = "step"
    /\ elastic.last_collision_time \in {elastic.t, elastic.t - 1}
    /\ elastic.m1 = Kg /\ elastic.m2 = 2 * Kg
    /\ elastic.v1 = 2 * MPS
    /\ Abs(elastic.current_v1) # 2 * MPS
    /\ elastic.current_v2 # 0

\* The midpoint of a line, doubled: <<x0 + x1, y0 + y1>>
TwiceMidpoint(line) == <<line[1][1] + line[1][2], line[2][1] + line[2][2]>>

\* The endpoint difference vector <<x1 - x0, y1 - y0>> of a line
DifferenceVector(line) == <<line[1][2] - line[1][1], line[2][2] - line[2][1]>>

\* C6: line utility: after snap() on an existing line the midpoint of the line is
\* (xs[snap_target_index], ys[snap_target_index]) and the endpoint difference
\* vector (x1 - x0, y1 - y0) is the same as before the call.
C6_SnapMidpointOnTarget ==
    [][(engine = "snapline" /\ last_call' = "snap" /\ drawer.line # NoLine) =>
          LET idx == drawer.snap_target_index
              after == drawer'
          IN  /\ after.line # NoLine
              /\ TwiceMidpoint(after.line) = <<2 * drawer.x[idx + 1], 2 * drawer.y[idx + 1]>>
              /\ DifferenceVector(after.line) = DifferenceVector(drawer.line)]_vars

\* C6 happens: a trimmed line, whose midpoint is not line_offset, has been snapped
\* to a target other than the launcher's.
C6_Witness ==
    /\ engine = "snapline"
    /\ last_call = "snap"
    /\ drawer.line # NoLine
    /\ drawer.snap_target_index = 3
    /\ TwiceMidpoint(drawer.line) = <<2 * drawer.x[4], 2 * drawer.y[4]>>
    /\ TwiceMidpoint(drawer.line) # <<2 * drawer.line_offset[1], 2 * drawer.line_offset[2]>>

\* C7: line utility: after trim() on an existing line both endpoints are samples of
\* the curve, ordered by increasing curve index, and no other curve sample has a
\* smaller distance to the pre-trim line than either chosen sample.
C7_TrimToNearestSamples ==
    [][(engine = "snapline" /\ last_call' = "trim" /\ drawer.line # NoLine) =>
          LET after == drawer'
              dists == Dists(drawer)
          IN  \E i \in DOMAIN dists, j \in DOMAIN dists :
                 /\ i < j
                 /\ after.line = Line2D(drawer.x[i + 1], drawer.x[j + 1],
                                        drawer.y[i + 1], drawer.y[j + 1])
                 /\ \A k \in DOMAIN dists \ {i, j} :
                       dists[k] >= dists[i] /\ dists[k] >= dists[j]]_vars

\* C7 happens: a trim has put the line on two samples that are not neighbours on
\* the curve, away from where the line was inserted.
C7_Witness ==
    /\ engine = "snapline"
    /\ last_call = "trim"
    /\ drawer.line # NoLine
    /\ \E i \in 1 .. Len(drawer.x), j \in 1 .. Len(drawer.x) :
          /\ j > i + 1
          /\ drawer.line = Line2D(drawer.x[i], drawer.x[j], drawer.y[i], drawer.y[j])
    /\ drawer.line_offset # <<0, 0>>

\* The history lists of an Atwood object
AtwoodHistories(s) ==
    <<s.time_history, s.y1_history, s.y2_history, s.v1_history, s.v2_history>>

\* The history lists of a rotation object, of either implementation
RotationHistories(s) ==
    <<s.time_history, s.theta_history, s.omega_history, s.alpha_history>>

\* Every list holds at most 500 entries, and all are as long as the first.
HistoriesCapped(lists) ==
    \A i \in DOMAIN lists : Len(lists[i]) <= 500 /\ Len(lists[i]) = Len(lists[1])

\* The step from list old to list new: if old held 500 samples, new holds 500 and
\* is old without its first sample followed by one more; otherwise new is one
\* longer and still starts with old's first sample.
OldestEvicted(old, new) ==
    IF Len(old) = 500
    THEN Len(new) = 500 /\ SubSeq(new, 1, 499) = Tail(old)
    ELSE Len(new) = Len(old) + 1 /\ (old # << >> => new[1] = old[1])

\* A transition of an engine from history lists olds to history lists news keeps
\* the lists capped and level, and a step evicts the oldest sample only.
HistoryKept(olds, news) ==
    /\ HistoriesCapped(news)
    /\ last_call' = "step" => \A i \in DOMAIN olds : OldestEvicted(olds[i], news[i])

\* C8: for every engine that keeps a history (Atwood, both rotation
\* implementations), after any number of steps each history list holds at most 500
\* entries, all history lists of the engine have the same length, and when the cap
\* is exceeded it is the oldest sample that is evicted: a step appends one sample
\* to each list, and drops the first one if the list held 500.
C8_HistoryCapped ==
    [][CASE engine = "atwood" ->
               HistoryKept(AtwoodHistories(atwood), AtwoodHistories(atwood'))
         [] engine = "rotation" ->
               HistoryKept(RotationHistories(rotation), RotationHistories(rotation'))
         [] engine = "freefall" ->
               HistoryKept(RotationHistories(freefall), RotationHistories(freefall'))
         [] OTHER -> TRUE]_vars

\* C8 happens: the sibling rotation engine has taken its 501st step, and the sample
\* of the first step is gone from lists that hold 500.
C8_Witness ==
    /\ engine = "freefall"
    /\ last_call = "step"
    /\ freefall.current_time = 501
    /\ Len(freefall.time_history) = 500
    /\ Len(freefall.alpha_history) = 500
    /\ freefall.time_history[1] = 2

\* The launched engine is paused.
EnginePaused ==
    CASE engine = "atwood" -> atwood.paused
      [] engine = "elastic" -> elastic.is_paused
      [] engine = "rotation" -> rotation.paused
      [] engine = "freefall" -> freefall.paused
      [] OTHER -> FALSE

\* C9: in every engine a timer frame delivered while the engine is paused leaves
\* the whole physical state unchanged: positions or angle, velocities, elapsed
\* time, last_collision_time and history are the same before and after the frame.
C9_PausedFrameChangesNothing ==
    [][(last_call' \in {"step", "idle_frame"} /\ EnginePaused) =>
          /\ atwood' = atwood
          /\ elastic' = elastic
          /\ rotation' = rotation
          /\ freefall' = freefall]_vars

\* C9 happens: the elastic engine was paused in mid-run, after a collision, and a
\* frame came.
C9_Witness ==
    /\ engine = "elastic"
    /\ last_call = "idle_frame"
    /\ elastic.is_paused
    /\ elastic.t > 0
    /\ elastic.last_collision_time > 0

\* The physical state of the launched engine is the initial one: positions or
\* angle and velocities at their initial values, elapsed time 0, history empty.
EngineAtInitialState ==
    CASE engine = "atwood" ->
            /\ atwood.y1 = y1_0 /\ atwood.y2 = y2_0
            /\ atwood.v1 = 0 /\ atwood.v2 = 0
            /\ atwood.current_time = 0
            /\ \A i \in 1 .. 5 : AtwoodHistories(atwood)[i] = << >>
      [] engine = "elastic" ->
            /\ elastic.x1 = x1_init /\ elastic.x2 = x2_init
            /\ elastic.current_v1 = elastic.v1 /\ elastic.current_v2 = elastic.v2
            /\ elastic.t = 0
            /\ elastic.last_collision_time = NoCollisionYet
      [] engine = "rotation" ->
            /\ rotation.theta = 0 /\ rotation.omega = 0
            /\ rotation.current_time = 0
            /\ \A i \in 1 .. 4 : RotationHistories(rotation)[i] = << >>
      [] engine = "freefall" ->
            /\ freefall.theta = 0 /\ freefall.omega = 0
            /\ freefall.current_time = 0
            /\ \A i \in 1 .. 4 : RotationHistories(freefall)[i] = << >>
      [] OTHER -> TRUE

\* C10: in every engine any parameter change (slider or shape selection) and any
\* Reset command replaces the entire simulation state with the initial state.
C10_ChangeOrResetRestarts ==
    [][last_call' \in {"update_parameters", "update_type", "reset_clicked"}
          => EngineAtInitialState']_vars

\* Micro-step i of the frame being taken ran the collision response on blocks of
\* 1 kg at 2 m/s and 2 kg at -1 m/s.
CollidedScenarioIn(i) ==
    LET pre == ElasticWalls(ElasticAdvance(BeforeMicroStep(i)))
    IN  /\ CollidedIn(i)
        /\ pre.m1 = Kg /\ pre.m2 = 2 * Kg
        /\ pre.current_v1 = 2 * MPS /\ pre.current_v2 = -MPS

\* C11 as stated: the collision response on m1 = 1, v1 = 2 and m2 = 2, v2 = -1
\* leaves v1' = -2/3 and v2' = 2/3.
C11_AsStated ==
    [][(engine = "elastic" /\ last_call' = "step") =>
          \A i \in 1 .. frame_skip :
             CollidedScenarioIn(i) =>
                 /\ 3 * AfterMicroStep(i).current_v1 = -2 * MPS
                 /\ 3 * AfterMicroStep(i).current_v2 = 2 * MPS]_vars

\* C11: elastic-collision engine: the collision response on blocks with m1 = 1,
\* v1 = 2 and m2 = 2, v2 = -1 leaves v1' = ((1 - 2)*2 + 2*2*(-1))/3 = -2 and
\* v2' = ((2 - 1)*(-1) + 2*1*2)/3 = 1.
C11_ScenarioVelocities ==
    [][(engine = "elastic" /\ last_call' = "step") =>
          \A i \in 1 .. frame_skip :
             CollidedScenarioIn(i) =>
                 /\ AfterMicroStep(i).current_v1 = -2 * MPS
                 /\ AfterMicroStep(i).current_v2 = MPS]_vars

\* C11 happens: the constructed blocks (1 kg at 2 m/s, 2 kg at -1 m/s) have met
\* for the first time, in the frame just taken, and carry the new velocities.
C11_Witness ==
    /\ engine = "elastic"
    /\ last_call = "step"
    /\ elastic.m1 = Kg /\ elastic.m2 = 2 * Kg
    /\ elastic.v1 = 2 * MPS /\ elastic.v2 = -MPS
    /\ elastic.last_collision_time \in {elastic.t, elastic.t - 1}
    /\ elastic.t < 150
    /\ elastic.current_v1 = -2 * MPS
    /\ elastic.current_v2 = MPS

\* No step since the last reset has wrapped the angle of s: the recorded angles
\* never decrease (alpha is never negative, so without a wrap theta only grows).
NotYetWrapped(s) ==
    \A i \in 2 .. Len(s.theta_history) : s.theta_history[i - 1] <= s.theta_history[i]

\* omega = alpha * current_time, and theta is within alpha * dt * current_time of
\* 0.5 * alpha * current_time^2.  In the model's units (time in ticks of dt, omega
\* as omega*dt, alpha as alpha*dt*dt) these read omega = alpha*n and
\* |theta - alpha*n*n/2| <= alpha*n, the latter doubled to stay in whole numbers.
ClosedForm(s) ==
    /\ s.omega = s.alpha * s.current_time
    /\ Abs(2 * s.theta - s.alpha * s.current_time * s.current_time)
          <= 2 * s.alpha * s.current_time

\* C12: rotation engine: after n unpaused steps from reset with no parameter
\* change, and before any wrap of theta, omega = alpha * current_time and theta
\* differs from 0.5 * alpha * current_time^2 by at most alpha * dt * current_time.
\* (On the exact values of the source's formulas; the primary implementation never
\* wraps, the sibling wraps above 4*pi.)
C12_ConstantTorqueClosedForm ==
    /\ engine = "rotation" => ClosedForm(rotation)
    /\ (engine = "freefall" /\ NotYetWrapped(freefall)) => ClosedForm(freefall)

\* C12 happens: the primary engine has run 120 steps with parameters other than
\* the constructed ones, past 4*pi, and was then paused.
C12_Witness ==
    /\ engine = "rotation"
    /\ last_call = "idle_frame"
    /\ rotation.paused
    /\ rotation.current_type = "Rod"
    /\ rotation.torque = 2
    /\ rotation.current_time = 120
    /\ rotation.theta > FourPi

\* C12 happens in the sibling: fifty steps on, the angle has not wrapped yet.
C12_WitnessFreefall ==
    /\ engine = "freefall"
    /\ last_call = "step"
    /\ freefall.current_time = 50
    /\ freefall.alpha > 0
    /\ NotYetWrapped(freefall)

\* The positions <<y1, y2>> that update_physics has computed from s when it comes
\* to the string constraint: the velocities updated, then the positions.
BeforeConstraint(s) ==
    <<s.y1 + (s.v1 + s.acceleration), s.y2 + (s.v2 - s.acceleration)>>

\* C13: Atwood engine: whenever the string-constraint projection fires in
\* update_physics, the midpoint (y1 + y2)/2 after the projection equals the
\* midpoint before it, the order of y1 and y2 is kept, and the separation becomes
\* exactly string_length.
C13_ProjectionAboutMidpoint ==
    [][(engine = "atwood" /\ last_call' = "step") =>
          LET p == BeforeConstraint(atwood)
              after == atwood'
          IN  Abs(p[1] - p[2]) > atwood.string_length =>
                 /\ after.y1 + after.y2 = p[1] + p[2]
                 /\ (p[1] > p[2]) <=> (after.y1 > after.y2)
                 /\ Abs(after.y1 - after.y2) = atwood.string_length]_vars

\* C13 happens: the last step projected the positions (mass 1 is not where its
\* velocity alone would have put it), with mass 1 below mass 2 on the shortest
\* string.
C13_Witness ==
    /\ engine = "atwood"
    /\ last_call = "step"
    /\ atwood.string_length = 2 * Metre
    /\ Len(atwood.y1_history) >= 2
    /\ atwood.y1_history[Len(atwood.y1_history) - 1] + atwood.v1 # atwood.y1
    /\ atwood.y1 < atwood.y2

\* A step from rotation object s to object after stores an angle of at most 4*pi:
\* the angle the step computed, theta + omega*dt, is replaced by its remainder
\* modulo 2*pi if it is above 4*pi and is stored as it is otherwise.
ThetaWrappedByStep(s, after) ==
    LET theta == s.theta + (s.omega + s.alpha)
    IN  /\ after.theta <= FourPi
        /\ theta > FourPi => after.theta = theta % TwoPi
        /\ theta <= FourPi => after.theta = theta

\* C14: rotation engine: after every step the stored angle satisfies
\* theta <= 4*pi; whenever a step leaves theta above 4*pi it is replaced by
\* theta mod 2*pi, and a step that leaves theta at or below 4*pi does not wrap it.
C14_ThetaWrappedAboveFourPi ==
    [][last_call' = "step" =>
          CASE engine = "rotation" -> ThetaWrappedByStep(rotation, rotation')
            [] engine = "freefall" -> ThetaWrappedByStep(freefall, freefall')
            [] OTHER -> TRUE]_vars

\* The moment of inertia of a shape of mass m and radius r, in 1/3000 kg*m^2 with
\* r in tenths of a metre: Disk 0.5*m*r^2, Ring 1.0*m*r^2, Rod (1/3)*m*(2r)^2,
\* Sphere 0.4*m*r^2.
ShapeInertia(type, m, r) ==
    CASE type = "Disk" -> (30 * m * r * r) \div 2
      [] type = "Ring" -> 30 * m * r * r
      [] type = "Rod" -> (30 * m * (2 * r) * (2 * r)) \div 3
      [] type = "Sphere" -> (30 * 4 * m * r * r) \div 10

\* The derived fields of rotation object s agree with its parameters:
\* moment_of_inertia is that of the shape, and alpha = torque / moment_of_inertia
\* (alpha is held as alpha*dt*dt in angle units: 3000*Radian/2500 per N*m over a
\* moment of inertia in 1/3000 kg*m^2).
DerivedFieldsAgree(s) ==
    /\ s.moment_of_inertia = ShapeInertia(s.current_type, s.mass, s.radius)
    /\ s.alpha * s.moment_of_inertia = s.torque * ((3000 * Radian) \div 2500)

\* C15: rotation engine: in every reachable state moment_of_inertia matches the
\* selected shape and the current mass and radius (Disk 0.5*m*r^2, Ring
\* 1.0*m*r^2, Rod (1/3)*m*(2r)^2, Sphere 0.4*m*r^2) and alpha = torque /
\* moment_of_inertia, because every shape or slider change resets.
C15_InertiaMatchesShape ==
    /\ engine = "rotation" => DerivedFieldsAgree(rotation)
    /\ engine = "freefall" => DerivedFieldsAgree(freefall)

\* C15 happens: a rod of parameters other than the constructed ones, in mid-run.
C15_Witness ==
    /\ engine = "rotation"
    /\ last_call = "step"
    /\ rotation.current_type = "Rod"
    /\ rotation.mass = 2
    /\ rotation.radius = 10
    /\ rotation.torque = 2
    /\ rotation.current_time = 3

\* C16: line utility: snap, trim and rotate invoked while no line exists are
\* no-ops: they leave line (absent), angle, line_offset and snap_target_index
\* unchanged.
C16_NoLineNoOp ==
    [][(engine = "snapline" /\ drawer.line = NoLine
           /\ last_call' \in {"snap", "trim", "rotate_line"}) =>
          /\ drawer'.line = NoLine
          /\ drawer'.angle = drawer.angle
          /\ drawer'.line_offset = drawer.line_offset
          /\ drawer'.snap_target_index = drawer.snap_target_index]_vars

\* C16 happens: a rotate key was pressed with no line, after the arrow keys and the
\* snap box had already changed line_offset and snap_target_index.
C16_Witness ==
    /\ engine = "snapline"
    /\ last_call = "rotate_line"
    /\ drawer.line = NoLine
    /\ drawer.line_offset # <<0, 0>>
    /\ drawer.snap_target_index # Len(drawer.x) \div 2

\* A submitted value fails the domain constraint of its field: it is not above 0
\* where the field must be, or it is outside the bounds of the field's slider.
FailsDomainConstraint(key, value) ==
    \/ key \in {"Mass", "Spring Constant", "Duration", "FPS"} /\ value <= 0
    \/ value < slider_params[key][1]
    \/ value > slider_params[key][2]

DerivedFromMasses(s) ==
    /\ s.acceleration * (s.m1 + s.m2) = (s.m2 - s.m1) * g
    /\ s.tension * (s.m1 + s.m2) = 2 * s.m1 * s.m2 * g

\* Atwood object s is at the initial conditions: y1 = 1.5, y2 = -1.5,
\* v1 = v2 = 0, current_time = 0 and the five history lists empty.
AtInitialConditions(s) ==
    /\ 2 * s.y1 = 3 * Metre
    /\ 2 * s.y2 = -3 * Metre
    /\ s.v1 = 0 /\ s.v2 = 0
    /\ s.current_time = 0
    /\ s.time_history = << >>
    /\ s.y1_history = << >> /\ s.y2_history = << >>
    /\ s.v1_history = << >> /\ s.v2_history = << >>

\* C18 as stated: Atwood engine: configuring m1, m2 or string_length recomputes
\* acceleration and tension but leaves y1, y2, v1, v2, the elapsed time and the
\* history unchanged.
C18_AsStated ==
    [][(engine = "atwood" /\ last_call' = "update_parameters") =>
          /\ DerivedFromMasses(atwood')
          /\ atwood'.y1 = atwood.y1 /\ atwood'.y2 = atwood.y2
          /\ atwood'.v1 = atwood.v1 /\ atwood'.v2 = atwood.v2
          /\ atwood'.current_time = atwood.current_time
          /\ AtwoodHistories(atwood') = AtwoodHistories(atwood)]_vars

\* C18: Atwood engine: configuring m1, m2 or string_length recomputes
\* acceleration and tension for the new masses and resets the simulation state:
\* y1, y2, v1, v2 and the elapsed time return to the initial conditions and the
\* history is emptied; only the pause flag is kept.
C18_ParameterChangeResets ==
    [][(engine = "atwood" /\ last_call' = "update_parameters") =>
          /\ DerivedFromMasses(atwood')
          /\ AtInitialConditions(atwood')
          /\ atwood'.paused = atwood.paused]_vars

\* C18 happens: a mass slider was moved while the machine was paused, and mass 1
\* is now the heavier one.
C18_Witness ==
    /\ engine = "atwood"
    /\ last_call = "update_parameters"
    /\ atwood.paused
    /\ atwood.m1 = 3
    /\ atwood.m2 = 1
    /\ atwood.acceleration < 0

\* C19: Atwood engine: from any reachable state, reset_simulation yields y1 = 1.5,
\* y2 = -1.5, v1 = v2 = 0, current_time = 0 and all five history lists empty, with
\* acceleration = (m2 - m1)*g/(m1 + m2) and tension = 2*m1*m2*g/(m1 + m2) for the
\* current masses.
C19_ResetSimulation ==
    [][(engine = "atwood" /\ last_call' \in {"reset_clicked", "update_parameters"}) =>
          /\ AtInitialConditions(atwood')
          /\ DerivedFromMasses(atwood')
          /\ last_call' = "reset_clicked" =>
                (atwood'.m1 = atwood.m1 /\ atwood'.m2 = atwood.m2)]_vars

\* C19 happens: Reset was clicked with masses and string other than the
\* constructed ones.
C19_Witness ==
    /\ engine = "atwood"
    /\ last_call = "reset_clicked"
    /\ atwood.m1 = 2
    /\ atwood.m2 = 3
    /\ atwood.string_length = 6 * Metre
    /\ atwood.current_time = 0
    /\ atwood.time_history = << >>

\* C20: Atwood engine scenario: with m1 = 1, m2 = 2, g = 9.81 the acceleration is
\* 3.27 and the tension 13.08; after 1 s of stepping from reset at dt = 0.02 (50
\* steps) v1 is 3.27 and v2 is -3.27.  (On the exact values of the source's
\* formulas.  The acceleration is held as acceleration*dt*dt and a velocity as
\* velocity*dt, in 1/Metre metres, with 1/dt = 50 and Metre a multiple of
\* 100*50*50.  The string constraint moves positions only, so the velocities are
\* these whether or not it has fired.)
C20_ScenarioOneSecond ==
    (engine = "atwood" /\ atwood.m1 = 1 /\ atwood.m2 = 2) =>
        /\ atwood.acceleration = 327 * (Metre \div (100 * 50 * 50))
        /\ atwood.tension = 1308 * (Metre \div (100 * 50 * 50))
        /\ atwood.current_time = 50 =>
              /\ atwood.v1 = 327 * (Metre \div (100 * 50))
              /\ atwood.v2 = -327 * (Metre \div (100 * 50))

\* C20 happens: the constructed machine (1 kg, 2 kg, string 4 m) has just taken
\* its 50th step.
C20_Witness ==
    /\ engine = "atwood"
    /\ last_call = "step"
    /\ atwood.m1 = 1 /\ atwood.m2 = 2
    /\ atwood.string_length = 4 * Metre
    /\ atwood.current_time = 50
    /\ Len(atwood.v1_history) = 50
    /\ atwood.v1 > 0

\* The state of micro-step i of the frame being taken after its position advance
\* and wall handling, when it comes to the block-block collision.
AtCollisionTest(i) == ElasticWalls(ElasticAdvance(BeforeMicroStep(i)))

\* The blocks of s touch or overlap.
BlocksTouch(s) == Abs(s.x1 - s.x2) <= block_width

\* The blocks of s are approaching: the one on the left is the faster to the right.
BlocksApproach(s) ==
    \/ (s.x1 < s.x2 /\ s.current_v1 > s.current_v2)
    \/ (s.x2 < s.x1 /\ s.current_v2 > s.current_v1)

\* C21: elastic-collision engine: a block-block collision response is applied in a
\* micro-step exactly when, after that micro-step's position advance and wall
\* handling, |x1 - x2| <= block_width, t - last_collision_time >
\* collision_cooldown (as the doubles of the source decide it) and the blocks are
\* approaching; so a response is never applied within the cooldown of the one
\* before it.
C21_CollisionExactlyWhenTriggered ==
    [][(engine = "elastic" /\ last_call' = "step") =>
          \A i \in 1 .. frame_skip :
             LET pre == AtCollisionTest(i)
             IN  CollidedIn(i) <=>
                    /\ BlocksTouch(pre)
                    /\ CooldownOver(pre.t, pre.last_collision_time)
                    /\ BlocksApproach(pre)]_vars

\* C21 happens: a frame has ended with the blocks overlapping and approaching
\* within the cooldown of a collision, and no response was applied.
C21_Witness ==
    /\ engine = "elastic"
    /\ last_call = "step"
    /\ BlocksTouch(elastic)
    /\ BlocksApproach(elastic)
    /\ elastic.last_collision_time >= 0
    /\ elastic.t - elastic.last_collision_time \in 1 .. collision_cooldown - 1

\* C22: elastic-collision engine: immediately after every block-block collision
\* response the blocks no longer overlap: |x1 - x2| equals block_width exactly,
\* the correction is split evenly (each block moves by overlap/2, in opposite
\* directions) and the pair's midpoint (x1 + x2)/2 is unchanged by the correction.
C22_OverlapSplitEvenly ==
    [][(engine = "elastic" /\ last_call' = "step") =>
          \A i \in 1 .. frame_skip :
             CollidedIn(i) =>
                LET pre == AtCollisionTest(i)
                    post == AfterMicroStep(i)
                    overlap == block_width - Abs(pre.x1 - pre.x2)
                IN  /\ Abs(post.x1 - post.x2) = block_width
                    /\ 2 * Abs(post.x1 - pre.x1) = overlap
                    /\ 2 * Abs(post.x2 - pre.x2) = overlap
                    /\ post.x1 - pre.x1 = -(post.x2 - pre.x2)
                    /\ post.x1 + post.x2 = pre.x1 + pre.x2]_vars

\* C22 happens: a response has just been applied at the left wall to blocks that
\* had sunk into each other during the cooldown of the response before.
C22_Witness ==
    /\ engine = "elastic"
    /\ last_call = "step"
    /\ elastic.last_collision_time \in {elastic.t, elastic.t - 1}
    /\ elastic.t > 120
    /\ elastic.v1 = -2 * MPS /\ elastic.v2 = -5 * MPS
    /\ elastic.x1 < -4 * ElMetre
    /\ elastic.x2 < -4 * ElMetre
    /\ Abs(elastic.current_v1) # 7 * MPS

\* The wall handling took a block that the position advance had put at x with
\* velocity v to xw with velocity vw.  If it reflected the block (the block was at
\* or beyond a wall), the block is clamped onto that wall with its speed unchanged
\* and its velocity pointing away from the wall, and it was not already moving away
\* from that wall; otherwise the block is untouched.
ReflectedProperly(x, v, xw, vw) ==
    IF x - block_width \div 2 <= wall_left
    THEN /\ xw = wall_left + block_width \div 2
         /\ Abs(vw) = Abs(v)
         /\ vw > 0
         /\ ~(v > 0)
    ELSE IF x + block_width \div 2 >= wall_right
         THEN /\ xw = wall_right - block_width \div 2
              /\ Abs(vw) = Abs(v)
              /\ vw < 0
              /\ ~(v < 0)
         ELSE xw = x /\ vw = v

\* C23: elastic-collision engine: whenever the wall handling of a micro-step
\* reflects a block, the block's position is clamped onto that wall, its speed |v|
\* is unchanged, and its velocity after the reflection points away from the wall
\* (positive at wall_left, negative at wall_right); a block whose velocity already
\* points away from the wall is never turned back toward it.
C23_WallReflection ==
    [][(engine = "elastic" /\ last_call' = "step") =>
          \A i \in 1 .. frame_skip :
             LET a == ElasticAdvance(BeforeMicroStep(i))
                 w == AtCollisionTest(i)
             IN  /\ ReflectedProperly(a.x1, a.current_v1, w.x1, w.current_v1)
                 /\ ReflectedProperly(a.x2, a.current_v2, w.x2, w.current_v2)]_vars

\* The segment of the given length (in thousandths of an axis unit) at the given
\* angle whose midpoint is offset, on the grid.
CentredSegment(offset, angle, length1000) ==
    LET x_end == RoundDiv(length1000 * Cos1000(angle) * Unit, 2 * 1000 * 1000)
        y_end == RoundDiv(length1000 * Sin1000(angle) * Unit, 2 * 1000 * 1000)
    IN  Line2D(-x_end + offset[1], x_end + offset[1],
               -y_end + offset[2], y_end + offset[2])

WithMass(s, m) == FreefallResetSimulation([s EXCEPT !.mass = m])

\* C25: rotation engine: for every shape and every mass, radius and torque within
\* the slider ranges, moment_of_inertia > 0 in every state after a reset, so
\* computing alpha never divides by zero; in the sibling implementation a
\* non-positive moment_of_inertia yields alpha = 0 instead of a division.
C25_InertiaPositive ==
    /\ engine = "rotation" => rotation.moment_of_inertia > 0
    /\ engine = "freefall" =>
          /\ freefall.moment_of_inertia > 0
          /\ \A m \in {0, -1} :
                /\ WithMass(freefall, m).moment_of_inertia <= 0
                /\ WithMass(freefall, m).alpha = 0

\* C25 happens: the shape of the least moment of inertia the sliders give here
\* (a sphere of 1 kg and radius 0.5 m) has just been reset by a slider, and alpha
\* was computed by the division.
C25_Witness ==
    /\ engine = "rotation"
    /\ last_call = "update_parameters"
    /\ rotation.current_type = "Sphere"
    /\ rotation.mass = 1
    /\ rotation.radius = 5
    /\ rotation.torque = 2
    /\ rotation.moment_of_inertia = 300
    /\ rotation.alpha = TorqueOverInertia(2, 300)
    /\ rotation.alpha > 0

\* C26: elastic-collision engine: the blocks never pass through each other: in
\* every state reachable from reset by any number of micro-steps, for all
\* slider-range masses and initial velocities, block 1 stays left of block 2
\* (x1 < x2), also during the collision cooldown window and after wall bounces.
C26_BlockOneLeftOfBlockTwo ==
    engine = "elastic" => elastic.x1 < elastic.x2

\* C27: elastic-collision engine: with masses unchanged, total kinetic energy
\* 0.5*m1*v1^2 + 0.5*m2*v2^2 has the same value after every micro-step of a run as
\* at reset, including micro-steps in which a wall reflection and a block-block
\* collision response both occur: no call other than a reset that leaves the
\* masses as they are changes it, and no micro-step of a frame does.
C27_KineticEnergyConstant ==
    [][(/\ engine = "elastic"
        /\ last_call' # "reset_clicked"
        /\ elastic'.m1 = elastic.m1
        /\ elastic'.m2 = elastic.m2) =>
          /\ TwiceKineticEnergy(elastic') = TwiceKineticEnergy(elastic)
          /\ last_call' = "step" =>
                \A i \in 1 .. frame_skip :
                   TwiceKineticEnergy(AfterMicroStep(i)) = TwiceKineticEnergy(elastic)]_vars

\* C27 happens: the last micro-step reflected a block at a wall and ran the
\* collision response (which pushed the block past the wall it was clamped to), in
\* a run of more than a hundred micro-steps with the parameters of its reset, and
\* the kinetic energy is the one of the reset.
C27_Witness ==
    /\ engine = "elastic"
    /\ last_call = "step"
    /\ elastic.t > 100
    /\ elastic.last_collision_time = elastic.t
    /\ \/ elastic.x1 - block_width \div 2 < wall_left
       \/ elastic.x2 + block_width \div 2 > wall_right
    /\ Abs(elastic.current_v1) # Abs(elastic.v1)
    /\ TwiceKineticEnergy(elastic) =
          elastic.m1 * elastic.v1 * elastic.v1 + elastic.m2 * elastic.v2 * elastic.v2

\* Drawer s has no line, or the midpoint of its line is line_offset.
MidpointOnOffset(s) ==
    \/ s.line = NoLine
    \/ TwiceMidpoint(s.line) = <<2 * s.line_offset[1], 2 * s.line_offset[2]>>

\* C28: line utility: after any sequence of insert_line_at_angle, move, rotate and
\* snap operations (move also when no line exists yet), whenever a line exists its
\* midpoint equals line_offset; trim is the only operation that changes the
\* endpoints without updating line_offset.  The drawer starts without a line; each
\* of the four operations, and a submitted snap-x text, keeps the midpoint on
\* line_offset, and trim leaves line_offset as it was whatever the new endpoints.
C28_MidpointIsLineOffset ==
    [][engine = "snapline" =>
          /\ (/\ last_call' \in {"insert_line_at_angle", "move_line", "rotate_line",
                                 "snap", "update_snap_index"}
              /\ MidpointOnOffset(drawer)) => MidpointOnOffset(drawer')
          /\ last_call' = "trim" => drawer'.line_offset = drawer.line_offset]_vars

\* C28 happens: a line rotated to 31 degrees (so not a trimmed one) has been
\* snapped onto a sample away from the origin, and line_offset went with it.
C28_Witness ==
    /\ engine = "snapline"
    /\ last_call = "snap"
    /\ drawer.line = CentredSegment(drawer.line_offset, 31, 2000)
    /\ drawer.line_offset # <<0, 0>>
    /\ drawer.line_offset = <<drawer.x[drawer.snap_target_index + 1],
                              drawer.y[drawer.snap_target_index + 1]>>
    /\ MidpointOnOffset(drawer)

\* trim breaks it: a trimmed line whose midpoint is not line_offset.
C28_TrimMovesMidpoint ==
    /\ engine = "snapline"
    /\ last_call = "trim"
    /\ ~MidpointOnOffset(drawer)

\* snap_target_index of drawer s is an index of its curve.
ValidSnapIndex(s) == s.snap_target_index >= 0 /\ s.snap_target_index < Len(s.x)

\* C29: line utility: in every reachable state snap_target_index is a valid index
\* into the supplied curve (0 <= snap_target_index < len(xs)), for every curve
\* length, so snap never reads outside the curve; a non-numeric snap-x input
\* leaves snap_target_index unchanged.  A submitted snap-x text changes
\* snap_target_index to the index nearest a numeric text or not at all, and changes
\* nothing else; no other operation changes it.
C29_SnapIndexValid ==
    /\ engine = "snapline" => ValidSnapIndex(drawer)
    /\ [][engine = "snapline" =>
             /\ ValidSnapIndex(drawer')
             /\ last_call' = "update_snap_index" =>
                   \/ drawer' = drawer
                   \/ \E x_val \in SnapTexts :
                         /\ drawer' = [drawer EXCEPT !.snap_target_index =
                                                        drawer'.snap_target_index]
                         /\ \A k \in 1 .. Len(drawer.x) :
                               Abs(drawer.x[drawer'.snap_target_index + 1] - x_val)
                                   <= Abs(drawer.x[k] - x_val)
             /\ last_call' # "update_snap_index" =>
                   drawer'.snap_target_index = drawer.snap_target_index]_vars

\* Under the launcher the index is valid: the snap-x box moved the target from the
\* launcher's sample to a later one, and snap then read that sample and put the
\* line on it.
C29_Witness ==
    /\ engine = "snapline"
    /\ last_call = "snap"
    /\ drawer.line # NoLine
    /\ drawer.snap_target_index > Len(drawer.x) \div 2
    /\ TwiceMidpoint(drawer.line) = <<2 * drawer.x[drawer.snap_target_index + 1],
                                      2 * drawer.y[drawer.snap_target_index + 1]>>

\* current_time of the engine that was launched, in ticks of dt
EngineTime ==
    CASE engine = "atwood" -> atwood.current_time
      [] engine = "rotation" -> rotation.current_time
      [] engine = "freefall" -> freefall.current_time
      [] OTHER -> 0

\* current_time has reached t_max: the double sum of 500 steps of dt = 0.02 is
\* 9.99999999999988, still below t_max = 10.0, and that of 501 steps is
\* 10.019999999999875, so t_max is reached with the tick after t_max / dt.
ReachedTMax == EngineTime > t_max

\* C30: Atwood and rotation engines: physics advances only while current_time <
\* t_max (10 s); under continued unpaused timer frames current_time eventually
\* reaches t_max, never exceeds t_max + dt, and from then on every frame leaves
\* positions/angle, velocities, time and history unchanged until a reset or
\* parameter change.
C30_RunEndsAtTMax ==
    /\ [](EngineTime <= t_max + 1)
    /\ [][(engine \in HistoryEngines /\ last_call' = "step") =>
             /\ ~ReachedTMax
             /\ EngineTime' = EngineTime + 1]_vars
    /\ [][(/\ engine \in HistoryEngines
           /\ ReachedTMax
           /\ last_call' \in {"step", "idle_frame"}) =>
             /\ last_call' = "idle_frame"
             /\ UNCHANGED <<atwood, rotation, freefall>>]_vars
    /\ <>[](last_call \in {"step", "idle_frame"} /\ ~EnginePaused)
          => <>[](ReachedTMax /\ last_call = "idle_frame")

\* C30 happens: the run of a rod, whose parameters were changed on the way, has
\* reached t_max and the frame after that changed nothing.
C30_Witness ==
    /\ engine = "rotation"
    /\ last_call = "idle_frame"
    /\ ~rotation.paused
    /\ rotation.current_type = "Rod"
    /\ rotation.torque = 2
    /\ rotation.current_time = t_max + 1
    /\ Len(rotation.time_history) = HistoryCap

====
